---------------------------- MODULE Spec2Model ----------------------------
(***************************************************************************)
(* The DeepSeek block translator of langchain-core                         *)
(* (messages/block_translators/deepseek.ts): convertToV1FromDeepSeek maps  *)
(* a raw AI message (content, additional_kwargs.reasoning_content,         *)
(* tool_calls) to the ordered sequence of v1 standard content blocks, and  *)
(* the same function serves complete messages and streamed chunks.  The    *)
(* chunk merge (AIMessageChunk.concat) and the contentBlocks accessor live *)
(* outside the translator's file and are modelled from their contract.     *)
(***************************************************************************)
EXTENDS Integers, Sequences, FiniteSets, TLC

VARIABLES
    message,    \* the raw message (or running merged chunk) whose view is asked for
    blocks,     \* the block sequence the last translation returned
    outcome,    \* "none" before any translation, then "returned" or "threw"
    chunks,     \* the chunks that arrived on the stream, in arrival order
    left,       \* operand a of the last concat, as it is after the merge
    right       \* operand b of the last concat, as it is after the merge

vars == <<message, blocks, outcome, chunks, left, right>>

---------------------------------------------------------------------------
(* Bounds of the model.                                                    *)

MaxStrLen == 2
MaxContentLen == 2
MaxToolCalls == 2
MaxChunks == 3

---------------------------------------------------------------------------
(* JavaScript values.  A string is the sequence of its characters; the     *)
(* primitives carry a js tag, plain objects (kwargs bags, blocks, tool     *)
(* calls) are records without one.                                         *)

Chars == {"a", " "}

SeqsUpTo(S, n) == UNION {[1..k -> S] : k \in 0..n}

Strings == SeqsUpTo(Chars, MaxStrLen)

Undefined == [js |-> "undefined"]
Null == [js |-> "null"]
Num == [js |-> "number"]
Str(s) == [js |-> "string", chars |-> s]
Arr(items) == [js |-> "array", items |-> items]
TypeError == [js |-> "TypeError"]

IsPrimitive(v) == "js" \in DOMAIN v

\* typeof v
Typeof(v) ==
    IF IsPrimitive(v)
    THEN (IF v.js \in {"null", "array"} THEN "object" ELSE v.js)
    ELSE "object"

IsNullish(v) == IsPrimitive(v) /\ v.js \in {"undefined", "null"}

\* Array.isArray(v)
IsArray(v) == IsPrimitive(v) /\ v.js = "array"

\* v.key : a TypeError on undefined and null, undefined for a key the value lacks
ReadProp(v, key) ==
    IF IsNullish(v) THEN TypeError
    ELSE IF key \in DOMAIN v THEN v[key]
    ELSE Undefined

\* a ?? b
Coalesce(a, b) == IF IsNullish(a) THEN b ELSE a

\* for (const x of v) iterates arrays (and strings); anything else throws
IsIterable(v) == IsPrimitive(v) /\ v.js \in {"array", "string"}

---------------------------------------------------------------------------
(* The messages the translator is applied to.                              *)

ToolCalls ==
    { [id |-> "call_1", name |-> "get_weather", args |-> [location |-> "NYC"]],
      [id |-> "call_2", name |-> "get_population", args |-> [location |-> "NYC"]] }

\* Elements a provider may already supply in an array content: standard
\* shapes of every type, and a malformed one without a type.
PassBlocks ==
    { [type |-> "text", text |-> <<"a">>],
      [type |-> "reasoning", reasoning |-> <<"a">>],
      [type |-> "tool_call", id |-> "call_9", name |-> "lookup", args |-> [q |-> "x"]],
      [foo |-> "bar"] }

ReasoningValues == {Undefined, Null, Num} \cup {Str(s) : s \in Strings}

KwargsValues == {Undefined} \cup {[reasoning_content |-> v] : v \in ReasoningValues}

ContentValues ==
    {Str(s) : s \in Strings} \cup {Arr(q) : q \in SeqsUpTo(PassBlocks, MaxContentLen)}

ToolCallsValues == {Undefined} \cup {Arr(q) : q \in SeqsUpTo(ToolCalls, MaxToolCalls)}

Flavors == {"AIMessage", "AIMessageChunk"}

Provider == "deepseek"

Messages ==
    [ flavor : Flavors,
      content : ContentValues,
      additional_kwargs : KwargsValues,
      tool_calls : ToolCallsValues,
      response_metadata : {[model_provider |-> Provider]} ]

---------------------------------------------------------------------------
(* utils.ts                                                                *)

_isObject(value) == Typeof(value) = "object" /\ value # Null

_isString(value) == Typeof(value) = "string"

---------------------------------------------------------------------------
(* convertToV1FromDeepSeek, step by step.  Each step gives the blocks it   *)
(* pushes, or threw when it evaluates an expression that raises.           *)

Returned(bs) == [threw |-> FALSE, blocks |-> bs]
Threw == [threw |-> TRUE, blocks |-> <<>>]

IsBlank(s) == \A i \in 1..Len(s) : s[i] = " "

\* Mutant: the reasoning string is trimmed before its length is tested.
reasoningStep_Trimmed(msg) ==
    LET kwargs == msg.additional_kwargs
        rc == IF _isObject(kwargs) THEN ReadProp(kwargs, "reasoning_content") ELSE Undefined
    IN  IF rc = TypeError THEN Threw
        ELSE IF _isObject(kwargs) /\ _isString(rc) /\ ~IsBlank(rc.chars)
        THEN Returned(<<[type |-> "reasoning", reasoning |-> rc.chars]>>)
        ELSE Returned(<<>>)

\* Mutant: the length test is dropped, so an empty string is emitted too.
reasoningStep_NoLengthTest(msg) ==
    LET kwargs == msg.additional_kwargs
        rc == IF _isObject(kwargs) THEN ReadProp(kwargs, "reasoning_content") ELSE Undefined
    IN  IF rc = TypeError THEN Threw
        ELSE IF _isObject(kwargs) /\ _isString(rc)
        THEN Returned(<<[type |-> "reasoning", reasoning |-> rc.chars]>>)
        ELSE Returned(<<>>)

\* Mutant: the _isObject guard is dropped, so reasoning_content is read
\* from whatever additional_kwargs is.
reasoningStep_Unguarded(msg) ==
    LET kwargs == msg.additional_kwargs
        rc == ReadProp(kwargs, "reasoning_content")
    IN  IF rc = TypeError THEN Threw
        ELSE IF _isString(rc) /\ Len(rc.chars) > 0
        THEN Returned(<<[type |-> "reasoning", reasoning |-> rc.chars]>>)
        ELSE Returned(<<>>)

\* Mutant: reasoning is emitted only for one provider tag.
reasoningStep_ProviderGated(msg) ==
    LET kwargs == msg.additional_kwargs
        rc == IF _isObject(kwargs) THEN ReadProp(kwargs, "reasoning_content") ELSE Undefined
    IN  IF rc = TypeError THEN Threw
        ELSE IF /\ _isObject(kwargs) /\ _isString(rc) /\ Len(rc.chars) > 0
                /\ msg.response_metadata.model_provider = "deepseek"
        THEN Returned(<<[type |-> "reasoning", reasoning |-> rc.chars]>>)
        ELSE Returned(<<>>)

\* lines 39-50: the reasoning block
reasoningStep(msg) ==
    LET kwargs == msg.additional_kwargs
        rc == IF _isObject(kwargs) THEN ReadProp(kwargs, "reasoning_content") ELSE Undefined
    IN  IF rc = TypeError THEN Threw
        ELSE IF _isObject(kwargs) /\ _isString(rc) /\ Len(rc.chars) > 0
        THEN Returned(<<[type |-> "reasoning", reasoning |-> rc.chars]>>)
        ELSE Returned(<<>>)

\* Mutant: a falsy (empty) string content pushes no text block.
contentStep_SkipEmpty(msg) ==
    IF Typeof(msg.content) = "string"
    THEN (IF Len(msg.content.chars) > 0
          THEN Returned(<<[type |-> "text", text |-> msg.content.chars]>>)
          ELSE Returned(<<>>))
    ELSE IF IsArray(msg.content)
    THEN Returned(msg.content.items)
    ELSE Returned(<<>>)

HasTypeField(b) == "type" \in DOMAIN b

\* Mutant: array elements without a type are filtered out.
contentStep_Validating(msg) ==
    IF Typeof(msg.content) = "string"
    THEN Returned(<<[type |-> "text", text |-> msg.content.chars]>>)
    ELSE IF IsArray(msg.content)
    THEN Returned(SelectSeq(msg.content.items, HasTypeField))
    ELSE Returned(<<>>)

\* lines 52-63: the text block, or the array content passed through
contentStep(msg) ==
    IF Typeof(msg.content) = "string"
    THEN Returned(<<[type |-> "text", text |-> msg.content.chars]>>)
    ELSE IF IsArray(msg.content)
    THEN Returned(msg.content.items)
    ELSE Returned(<<>>)

\* Mutant: the tool calls are emitted in reverse order.
toolCallStep_Reversed(msg) ==
    LET calls == Coalesce(msg.tool_calls, Arr(<<>>))
        n == Len(calls.items)
    IN  IF ~IsIterable(calls) THEN Threw
        ELSE IF \E i \in 1..n : IsNullish(calls.items[i]) THEN Threw
        ELSE Returned([i \in 1..n |->
                [ type |-> "tool_call",
                  id |-> ReadProp(calls.items[n + 1 - i], "id"),
                  name |-> ReadProp(calls.items[n + 1 - i], "name"),
                  args |-> ReadProp(calls.items[n + 1 - i], "args") ]])

\* lines 65-73: one tool_call block per tool call
toolCallStep(msg) ==
    LET calls == Coalesce(msg.tool_calls, Arr(<<>>))
    IN  IF ~IsIterable(calls) THEN Threw
        ELSE IF \E i \in 1..Len(calls.items) : IsNullish(calls.items[i]) THEN Threw
        ELSE Returned([i \in 1..Len(calls.items) |->
                [ type |-> "tool_call",
                  id |-> ReadProp(calls.items[i], "id"),
                  name |-> ReadProp(calls.items[i], "name"),
                  args |-> ReadProp(calls.items[i], "args") ]])

\* Mutant: the content is pushed before the reasoning block.
convertToV1FromDeepSeek_ContentFirst(msg) ==
    LET r == reasoningStep(msg)
        c == contentStep(msg)
        t == toolCallStep(msg)
    IN  IF r.threw \/ c.threw \/ t.threw THEN Threw
        ELSE Returned(c.blocks \o r.blocks \o t.blocks)

convertToV1FromDeepSeek(msg) ==
    LET r == reasoningStep(msg)
        c == contentStep(msg)
        t == toolCallStep(msg)
    IN  IF r.threw \/ c.threw \/ t.threw THEN Threw
        ELSE Returned(r.blocks \o c.blocks \o t.blocks)

\* Mutant: the reasoning string is moved out of the bag once it is extracted.
messageAfterConvert_Consumes(msg) ==
    IF _isObject(msg.additional_kwargs)
    THEN [msg EXCEPT !.additional_kwargs = [reasoning_content |-> Undefined]]
    ELSE msg

\* The message as the call leaves it.  The function only reads its
\* argument: every push goes to the local blocks array.
messageAfterConvert(msg) == msg

\* Mutant: chunks get a translator of their own that knows text only.
translateContentChunk_TextOnly(msg) ==
    LET c == contentStep(msg)
        t == toolCallStep(msg)
    IN  IF c.threw \/ t.threw THEN Threw ELSE Returned(c.blocks \o t.blocks)

\* ChatDeepSeekTranslator
translateContent(msg) == convertToV1FromDeepSeek(msg)
translateContentChunk(msg) == convertToV1FromDeepSeek(msg)

---------------------------------------------------------------------------
(* Streaming.  The chunks of a stream carry a string content, an optional  *)
(* reasoning string and no tool calls; their merge is the raw message's    *)
(* concat, taken from its contract.                                        *)

Pieces == {<<>>, <<"a">>, <<" ">>}

StreamChunks ==
    [ flavor : {"AIMessageChunk"},
      content : {Str(p) : p \in Pieces},
      additional_kwargs :
          {[reasoning_content |-> v] : v \in {Undefined} \cup {Str(p) : p \in Pieces}},
      tool_calls : {Arr(<<>>)},
      response_metadata : {[model_provider |-> Provider]} ]

\* A missing reasoning_content counts as the empty string in a merge.
AsText(v) == IF Typeof(v) = "string" THEN v.chars ELSE <<>>

\* a.concat(b): a new chunk; contents and reasoning strings are
\* concatenated in arrival order with no separator.
concat(a, b) ==
    [ flavor |-> "AIMessageChunk",
      content |-> Str(a.content.chars \o b.content.chars),
      additional_kwargs |->
          [reasoning_content |->
              Str(AsText(ReadProp(a.additional_kwargs, "reasoning_content"))
                  \o AsText(ReadProp(b.additional_kwargs, "reasoning_content")))],
      tool_calls |-> Arr(a.tool_calls.items \o b.tool_calls.items),
      response_metadata |-> a.response_metadata ]

\* The operands as the merge leaves them: concat builds a new chunk.
operandAfterConcat(chunk) == chunk

---------------------------------------------------------------------------
(* The state machine.                                                      *)

NoChunk == Undefined

Init ==
    /\ message \in Messages
    /\ blocks = <<>>
    /\ outcome = "none"
    /\ chunks = IF message \in StreamChunks THEN <<message>> ELSE <<>>
    /\ left = NoChunk
    /\ right = NoChunk

\* message.contentBlocks : the view is recomputed from the raw message
Translate ==
    LET res == IF message.flavor = "AIMessageChunk"
               THEN translateContentChunk(message)
               ELSE translateContent(message)
    IN  /\ blocks' = res.blocks
        /\ outcome' = IF res.threw THEN "threw" ELSE "returned"
        /\ message' = messageAfterConvert(message)
        /\ UNCHANGED <<chunks, left, right>>

\* One step of the accumulator: the next chunk of the stream is merged into
\* the running chunk and the view is derived again from the merged chunk.
Receive(chunk) ==
    /\ chunks # <<>>
    /\ Len(chunks) < MaxChunks
    /\ LET merged == concat(message, chunk)
           res == translateContentChunk(merged)
       IN  /\ message' = messageAfterConvert(merged)
           /\ blocks' = res.blocks
           /\ outcome' = IF res.threw THEN "threw" ELSE "returned"
    /\ chunks' = Append(chunks, chunk)
    /\ left' = operandAfterConcat(message)
    /\ right' = operandAfterConcat(chunk)

Next ==
    \/ Translate
    \/ \E chunk \in StreamChunks : Receive(chunk)

Spec == Init /\ [][Next]_vars

---------------------------------------------------------------------------
(* What the claims speak about.                                            *)

\* The value readable under message.additional_kwargs.reasoning_content
\* (undefined when the bag itself is missing, as with optional chaining).
ReasoningContent(msg) ==
    IF IsNullish(msg.additional_kwargs) THEN Undefined
    ELSE ReadProp(msg.additional_kwargs, "reasoning_content")

HasReasoningString(msg) ==
    /\ Typeof(ReasoningContent(msg)) = "string"
    /\ Len(ReasoningContent(msg).chars) > 0

BlockType(b) == IF "type" \in DOMAIN b THEN b.type ELSE "none"

Positions(bs, t) == {i \in 1..Len(bs) : BlockType(bs[i]) = t}

Count(bs, t) == Cardinality(Positions(bs, t))

ContentIsString(msg) == Typeof(msg.content) = "string"

\* The elements of an array content (none for a string content).
ContentItems(msg) == IF IsArray(msg.content) THEN msg.content.items ELSE <<>>

\* The tool calls of the message (none when tool_calls is absent).
CallsOf(msg) == IF IsNullish(msg.tool_calls) THEN <<>> ELSE msg.tool_calls.items

ReasoningOffset(msg) == IF HasReasoningString(msg) THEN 1 ELSE 0

Translated == outcome # "none"

---------------------------------------------------------------------------
(* Claims about one translation.                                           *)

\* C1: when additional_kwargs.reasoning_content is a string of non-zero
\* length R (whitespace-only included), the translation returns and its
\* first block is exactly {type: reasoning, reasoning: R}, R being the value
\* still readable under additional_kwargs.reasoning_content.
C1_ReasoningFirst ==
    (Translated /\ HasReasoningString(message)) =>
        /\ outcome = "returned"
        /\ Len(blocks) >= 1
        /\ blocks[1] = [type |-> "reasoning",
                        reasoning |-> ReasoningContent(message).chars]

C1_Witness ==
    /\ outcome = "returned"
    /\ message.flavor = "AIMessageChunk"
    /\ ReasoningContent(message) = Str(<<" ">>)
    /\ blocks[1] = [type |-> "reasoning", reasoning |-> <<" ">>]

\* C2 (as stated): when reasoning_content is absent, null, non-string or
\* empty, no block of type reasoning appears anywhere in the translation,
\* whatever the content (string or array) is.
C2_NoReasoningAnywhere ==
    (Translated /\ ~HasReasoningString(message)) =>
        Positions(blocks, "reasoning") = {}

\* C2 (amended): when reasoning_content is absent, null, non-string or
\* empty, the translator emits no reasoning block of its own: the
\* translation holds exactly as many reasoning-typed blocks as the array
\* content supplies (none for a string content), and it starts with the
\* content's blocks.
C2_NoReasoningEmitted ==
    (Translated /\ ~HasReasoningString(message)) =>
        /\ outcome = "returned"
        /\ Count(blocks, "reasoning") = Count(ContentItems(message), "reasoning")
        /\ ContentIsString(message) => Positions(blocks, "reasoning") = {}
        /\ Len(blocks) = (IF ContentIsString(message) THEN 1 ELSE Len(ContentItems(message)))
                         + Len(CallsOf(message))

C2_Witness ==
    /\ outcome = "returned"
    /\ ReasoningContent(message) = Str(<<>>)
    /\ message.content = Arr(<<[type |-> "text", text |-> <<"a">>],
                               [type |-> "reasoning", reasoning |-> <<"a">>]>>)
    /\ Positions(blocks, "reasoning") = {2}

\* C3: for a string content S (the empty string included) the translation
\* holds exactly one text block, its text is S, and it sits right after the
\* reasoning block when one was emitted and first otherwise; content "" with
\* no reasoning and no tool calls translates to exactly [text("")].
C3_OneTextBlock ==
    (Translated /\ ContentIsString(message)) =>
        LET k == ReasoningOffset(message) + 1
        IN  /\ outcome = "returned"
            /\ Len(blocks) >= k
            /\ blocks[k] = [type |-> "text", text |-> message.content.chars]
            /\ Positions(blocks, "text") = {k}
            /\ (k = 2) <=> (BlockType(blocks[1]) = "reasoning")
            /\ ( /\ message.content = Str(<<>>)
                 /\ ~HasReasoningString(message)
                 /\ CallsOf(message) = <<>> )
               => blocks = <<[type |-> "text", text |-> <<>>]>>

C3_Witness ==
    /\ outcome = "returned"
    /\ message.content = Str(<<>>)
    /\ ~HasReasoningString(message)
    /\ CallsOf(message) = <<>>
    /\ blocks = <<[type |-> "text", text |-> <<>>]>>

\* The block the k-th tool call is turned into.
ToolCallBlock(call) ==
    [type |-> "tool_call", id |-> call.id, name |-> call.name, args |-> call.args]

\* C4 (as stated): with N tool calls, exactly N tool_call blocks appear,
\* they are the last N blocks, and the k-th carries the k-th call's id, name
\* and args.
C4_ExactlyNToolCalls ==
    Translated =>
        LET N == Len(CallsOf(message))
        IN  /\ Count(blocks, "tool_call") = N
            /\ Len(blocks) >= N
            /\ \A k \in 1..N :
                   blocks[Len(blocks) - N + k] = ToolCallBlock(CallsOf(message)[k])

\* C4 (amended): with N tool calls, the last N blocks are tool_call blocks,
\* the k-th of them carrying the k-th call's id, name and args in the
\* original order; the only other tool_call-typed blocks are the elements an
\* array content passes through, so for a string content exactly N appear.
C4_ToolCallsLast ==
    Translated =>
        LET N == Len(CallsOf(message))
        IN  /\ outcome = "returned"
            /\ Len(blocks) >= N
            /\ \A k \in 1..N :
                   blocks[Len(blocks) - N + k] = ToolCallBlock(CallsOf(message)[k])
            /\ Count(blocks, "tool_call") = N + Count(ContentItems(message), "tool_call")
            /\ ContentIsString(message) => Count(blocks, "tool_call") = N

C4_Witness ==
    /\ outcome = "returned"
    /\ Len(CallsOf(message)) = 2
    /\ CallsOf(message)[1] # CallsOf(message)[2]
    /\ HasReasoningString(message)
    /\ ContentIsString(message)
    /\ Len(blocks) = 4
    /\ blocks[3].id = "call_2"
    /\ blocks[4].id = "call_1"

\* C5: for an array content of length N the translation holds its N
\* elements, unchanged and in order, right after the reasoning block (if
\* any) and before the tool_call blocks made from tool_calls; nothing is
\* filtered and no text block is added.
C5_ArrayPassthrough ==
    (Translated /\ IsArray(message.content)) =>
        LET r == ReasoningOffset(message)
            N == Len(message.content.items)
        IN  /\ outcome = "returned"
            /\ Len(blocks) = r + N + Len(CallsOf(message))
            /\ SubSeq(blocks, r + 1, r + N) = message.content.items
            /\ \A i \in (r + N + 1)..Len(blocks) : BlockType(blocks[i]) = "tool_call"

C5_Witness ==
    /\ outcome = "returned"
    /\ IsArray(message.content)
    /\ Len(message.content.items) = 2
    /\ message.content.items[1] = [foo |-> "bar"]
    /\ HasReasoningString(message)
    /\ Len(CallsOf(message)) = 1
    /\ blocks[2] = [foo |-> "bar"]
    /\ Len(blocks) = 4

\* C7: the translation always returns a block sequence and never throws:
\* with additional_kwargs missing or reasoning_content null or of another
\* type no reasoning block is emitted, with tool_calls absent no tool_call
\* block is emitted, and malformed array elements are forwarded.
C7_Total ==
    Translated =>
        /\ outcome = "returned"
        /\ Len(blocks) =
               ReasoningOffset(message)
               + (IF ContentIsString(message) THEN 1 ELSE Len(ContentItems(message)))
               + (IF IsNullish(message.tool_calls) THEN 0 ELSE Len(message.tool_calls.items))
        /\ (IsNullish(message.additional_kwargs) \/ ~_isString(ReasoningContent(message)))
           => Count(blocks, "reasoning") = Count(ContentItems(message), "reasoning")
        /\ IsNullish(message.tool_calls)
           => Count(blocks, "tool_call") = Count(ContentItems(message), "tool_call")
        /\ \A i \in 1..Len(ContentItems(message)) :
               blocks[ReasoningOffset(message) + i] = ContentItems(message)[i]

C7_Witness ==
    /\ outcome = "returned"
    /\ message.additional_kwargs = Undefined
    /\ message.tool_calls = Undefined
    /\ message.content = Arr(<<[foo |-> "bar"]>>)
    /\ blocks = <<[foo |-> "bar"]>>

---------------------------------------------------------------------------
(* Claims about streams and about the translation as a function.           *)

RECURSIVE JoinContent(_)
\* S1 .. Sn : the contents of the chunks, concatenated in arrival order
JoinContent(cs) ==
    IF cs = <<>> THEN <<>>
    ELSE cs[1].content.chars \o JoinContent(Tail(cs))

RECURSIVE JoinReasoning(_)
\* R1 .. Rn : the reasoning strings of the chunks, a missing one counting as ""
JoinReasoning(cs) ==
    IF cs = <<>> THEN <<>>
    ELSE AsText(ReasoningContent(cs[1])) \o JoinReasoning(Tail(cs))

\* The complete message that carries the whole stream at once.
CompleteMessage(cs) ==
    [ flavor |-> "AIMessage",
      content |-> Str(JoinContent(cs)),
      additional_kwargs |-> [reasoning_content |-> Str(JoinReasoning(cs))],
      tool_calls |-> Arr(<<>>),
      response_metadata |-> [model_provider |-> Provider] ]

Streaming == chunks # <<>>

\* C6: merging the chunks of a stream and translating the merged chunk gives
\* the blocks that translating one complete message with the concatenated
\* content and reasoning gives: the reasoning block of R1..Rn when that is
\* non-empty, then the text block of S1..Sn.
C6_MergeLaw ==
    (Streaming /\ Translated) =>
        /\ outcome = "returned"
        /\ blocks = translateContent(CompleteMessage(chunks)).blocks
        /\ blocks =
               (IF JoinReasoning(chunks) # <<>>
                THEN <<[type |-> "reasoning", reasoning |-> JoinReasoning(chunks)]>>
                ELSE <<>>)
               \o <<[type |-> "text", text |-> JoinContent(chunks)]>>

C6_Witness ==
    /\ outcome = "returned"
    /\ Len(chunks) = 3
    /\ ReasoningContent(chunks[1]) = Str(<<"a">>)
    /\ ReasoningContent(chunks[2]) = Undefined
    /\ ReasoningContent(chunks[3]) = Str(<<" ">>)
    /\ chunks[1].content = Str(<<>>)
    /\ blocks = << [type |-> "reasoning", reasoning |-> <<"a", " ">>],
                   [type |-> "text", text |-> JoinContent(chunks)] >>

\* The messages that agree with msg on content, reasoning_content and
\* tool_calls and differ in flavor, provider tag, the shape of the bag and
\* the presence of other fields.
Variants(msg) ==
    { [ flavor |-> f,
        content |-> msg.content,
        additional_kwargs |-> k,
        tool_calls |-> msg.tool_calls,
        response_metadata |-> [model_provider |-> p],
        id |-> Str(<<"a">>) ] :
      f \in Flavors,
      p \in {"deepseek", "openai"},
      k \in { [reasoning_content |-> ReasoningContent(msg)],
              [reasoning_content |-> ReasoningContent(msg), function_call |-> Str(<<"a">>)] } }

ViewOf(msg) ==
    IF msg.flavor = "AIMessageChunk" THEN translateContentChunk(msg) ELSE translateContent(msg)

\* C8: the view is a function of content, additional_kwargs.reasoning_content
\* and tool_calls alone: every message that agrees on these three translates
\* to the blocks the last call returned, and a further call on the unmodified
\* message returns the same blocks again.
C8_Deterministic ==
    /\ [](Translated =>
            \A v \in Variants(message) :
                /\ ViewOf(v).blocks = blocks
                /\ ViewOf(v).threw = (outcome = "threw"))
    /\ [][(Translated /\ message' = message) => (blocks' = blocks /\ outcome' = outcome)]_vars

C8_Witness ==
    /\ outcome = "returned"
    /\ HasReasoningString(message)
    /\ message.flavor = "AIMessage"
    /\ Len(blocks) = 3
    /\ \A v \in Variants(message) : ViewOf(v).blocks = blocks

IsPrefix(s, t) == Len(s) <= Len(t) /\ SubSeq(t, 1, Len(s)) = s

HasReasoningBlock(bs) == Positions(bs, "reasoning") # {}

TextOf(bs) == bs[CHOOSE i \in Positions(bs, "text") : TRUE].text

\* C9: while a stream accumulates and the view is derived again after each
\* merge, a view that holds a reasoning block is followed only by views whose
\* first block is a reasoning block extending that reasoning text, and the
\* text of the text block only ever grows by appending.
C9_ViewGrows ==
    [][(Streaming /\ Translated) =>
          /\ Positions(blocks', "text") # {}
          /\ IsPrefix(TextOf(blocks), TextOf(blocks'))
          /\ HasReasoningBlock(blocks) =>
                 /\ BlockType(blocks'[1]) = "reasoning"
                 /\ IsPrefix(blocks[1].reasoning, blocks'[1].reasoning)
                 /\ BlockType(blocks'[2]) = "text"]_vars

C9_Witness ==
    /\ Len(chunks) = 3
    /\ HasReasoningString(chunks[1])
    /\ ~HasReasoningString(chunks[2])
    /\ chunks[3].content = Str(<<"a">>)
    /\ HasReasoningString(left)
    /\ blocks[1] = [type |-> "reasoning", reasoning |-> JoinReasoning(chunks)]
    /\ Len(blocks[1].reasoning) = 2

=============================================================================
